---- MODULE Spec2Model ----
(***************************************************************************)
(* Model of the Odd-or-Even wagering component (src/src/lib.rs): the OOE   *)
(* component (badge vault, XRD vault, Game), its three mutating methods,   *)
(* its two queries and the Game phase machine.                             *)
(***************************************************************************)
EXTENDS Integers, Naturals, Sequences, FiniteSets, TLC

\* ---- bounds of the model ----
MaxBet == 2          \* bet amounts given to instantiate_ooe_game: 0..MaxBet
MaxWager == 3        \* XRD amounts offered to join_ooe_game: 0..MaxWager
U128Bits == 2        \* modelled width of the u128 guess (wraps at 2^U128Bits)

U128Modulus == 2 ^ U128Bits
U128 == 0 .. (U128Modulus - 1)

\* ---- types of the program ----
States == <<"AcceptingPlayers", "PickNumber", "WinnerSelection", "Payout", "Ended">>

\* discriminant of a State (lib.rs enum State)
StateRank(s) == CHOOSE i \in 1..Len(States) : States[i] = s

\* local ids of the two badges minted at instantiation
BadgeIds == {1, 2}

\* NonFungibleLocalId::integer(0), the "no winner yet" value
NoWinner == 0

\* the PlayerNFT data minted under each local id
PlayerNFT(id) ==
    IF id = 1 THEN [name |-> "Even Player badge", odd_or_even |-> "Even"]
              ELSE [name |-> "Odd Player badge", odd_or_even |-> "Odd"]

\* Option<T> is a sequence of length 0 (None) or 1 (Some)
None == <<>>
Some(x) == <<x>>
is_some(o) == Len(o) = 1
unwrap(o) == o[1]

\* Player::empty()
Player_empty == [number |-> 0, odd_or_even |-> None]

\* HashMap::new()
HashMap_new == [id \in {} |-> Player_empty]

\* HashMap::insert
insert(m, k, v) == [x \in (DOMAIN m) \cup {k} |-> IF x = k THEN v ELSE m[x]]

\* HashMap::len
len(m) == Cardinality(DOMAIN m)

\* the orders in which iterating a HashMap may yield its keys
IterationOrders(m) ==
    {o \in [1..len(m) -> DOMAIN m] : \A i, j \in 1..len(m) : i # j => o[i] # o[j]}

VARIABLES
    player_badges_vault,  \* OOE.player_badges_vault: ids of the badges still held
    xrd_vault,            \* OOE.xrd_vault: amount of XRD held
    game,                 \* OOE.game: [state, players_list, winner, bet_amount]
    overflow_checks,      \* build profile: does u128 overflow panic (TRUE) or wrap
    ret,                  \* the last call: its name, arguments, error and returns
    joins,                \* number of join_ooe_game calls that returned
    withdrawals,          \* number of withdraw_xrd calls that returned
    picked                \* ids of the badges whose pick_number call returned

vars == <<player_badges_vault, xrd_vault, game, overflow_checks, ret, joins, withdrawals,
          picked>>

\* Game::instantiate_game
instantiate_game(players, bet) ==
    [state |-> "AcceptingPlayers", players_list |-> players,
     winner |-> NoWinner, bet_amount |-> bet]

\* both_picked counting every pick, the zero of Player::empty included
both_picked_any(g) ==
    IF is_some(g.players_list)
    THEN LET players == unwrap(g.players_list)
         IN IF len(players) = 2
            THEN Cardinality({id \in DOMAIN players : players[id].number >= 0}) = 2
            ELSE FALSE
    ELSE FALSE

\* Game::both_picked
both_picked(g) ==
    IF is_some(g.players_list)
    THEN LET players == unwrap(g.players_list)
         IN IF len(players) = 2
            THEN Cardinality({id \in DOMAIN players : players[id].number > 0}) = 2
            ELSE FALSE
    ELSE FALSE

RECURSIVE winner_loop(_, _, _, _)

\* winner_loop testing each number alone instead of the running sum
winner_loop_no_sum(players, order, i, acc) ==
    IF i > Len(order) THEN acc
    ELSE LET id == order[i]
             sum == players[id].number
         IN winner_loop(players, order, i + 1,
                [acc EXCEPT !.sum = sum,
                            !.winner = IF sum % 2 = 0 THEN id ELSE acc.winner])

\* the for loop of get_game_winner: acc = [sum, winner, panic]
winner_loop(players, order, i, acc) ==
    IF i > Len(order) THEN acc
    ELSE LET id == order[i]
             raw == acc.sum + players[id].number
             sum == raw % U128Modulus
         IN IF raw >= U128Modulus /\ overflow_checks
            THEN [acc EXCEPT !.panic = "Overflow"]
            ELSE winner_loop(players, order, i + 1,
                     [acc EXCEPT !.sum = sum,
                                 !.winner = IF sum % 2 = 0 THEN id ELSE acc.winner])

RECURSIVE update_state(_, _)
RECURSIVE get_game_winner(_, _)

\* Game::get_game_winner; order is the iteration order of players_list.
\* The result is [game, panic]: panic # "" when the call aborts.
get_game_winner(g, order) ==
    IF g.state # "WinnerSelection"
    THEN [game |-> g, panic |-> "NotTimeToChooseWinner"]
    ELSE IF ~is_some(g.players_list)
    THEN [game |-> g, panic |-> "UnwrapNone"]
    ELSE LET acc == winner_loop(unwrap(g.players_list), order, 1,
                        [sum |-> 0, winner |-> g.winner, panic |-> ""])
         IN IF acc.panic # ""
            THEN [game |-> g, panic |-> acc.panic]
            ELSE update_state([g EXCEPT !.winner = acc.winner], order)

\* update_state with the Payout arm starting a new round instead of ending
update_state_restart(g, order) ==
    CASE g.state = "AcceptingPlayers" ->
            IF ~is_some(g.players_list)
            THEN [game |-> g, panic |-> "UnwrapNone"]
            ELSE IF len(unwrap(g.players_list)) = 2
            THEN [game |-> [g EXCEPT !.state = "PickNumber"], panic |-> ""]
            ELSE [game |-> g, panic |-> ""]
      [] g.state = "PickNumber" ->
            IF both_picked(g)
            THEN get_game_winner([g EXCEPT !.state = "WinnerSelection"], order)
            ELSE [game |-> g, panic |-> ""]
      [] g.state = "WinnerSelection" ->
            IF g.winner # NoWinner
            THEN [game |-> [g EXCEPT !.state = "Payout"], panic |-> ""]
            ELSE [game |-> g, panic |-> ""]
      [] g.state = "Payout" ->
            [game |-> [g EXCEPT !.state = "AcceptingPlayers"], panic |-> ""]
      [] OTHER -> [game |-> g, panic |-> ""]

\* update_state with the PickNumber arm not waiting for both picks
update_state_eager(g, order) ==
    CASE g.state = "AcceptingPlayers" ->
            IF ~is_some(g.players_list)
            THEN [game |-> g, panic |-> "UnwrapNone"]
            ELSE IF len(unwrap(g.players_list)) = 2
            THEN [game |-> [g EXCEPT !.state = "PickNumber"], panic |-> ""]
            ELSE [game |-> g, panic |-> ""]
      [] g.state = "PickNumber" ->
            get_game_winner([g EXCEPT !.state = "WinnerSelection"], order)
      [] g.state = "WinnerSelection" ->
            IF g.winner # NoWinner
            THEN [game |-> [g EXCEPT !.state = "Payout"], panic |-> ""]
            ELSE [game |-> g, panic |-> ""]
      [] g.state = "Payout" ->
            [game |-> [g EXCEPT !.state = "Ended"], panic |-> ""]
      [] OTHER -> [game |-> g, panic |-> ""]

\* Game::update_state
update_state(g, order) ==
    CASE g.state = "AcceptingPlayers" ->
            IF ~is_some(g.players_list)
            THEN [game |-> g, panic |-> "UnwrapNone"]
            ELSE IF len(unwrap(g.players_list)) = 2
            THEN [game |-> [g EXCEPT !.state = "PickNumber"], panic |-> ""]
            ELSE [game |-> g, panic |-> ""]
      [] g.state = "PickNumber" ->
            IF both_picked(g)
            THEN get_game_winner([g EXCEPT !.state = "WinnerSelection"], order)
            ELSE [game |-> g, panic |-> ""]
      [] g.state = "WinnerSelection" ->
            IF g.winner # NoWinner
            THEN [game |-> [g EXCEPT !.state = "Payout"], panic |-> ""]
            ELSE [game |-> g, panic |-> ""]
      [] g.state = "Payout" ->
            [game |-> [g EXCEPT !.state = "Ended"], panic |-> ""]
      [] OTHER -> [game |-> g, panic |-> ""]

\* ---- arguments of the calls ----
WagerAmounts == 0 .. MaxWager

\* badges handed out by join_ooe_game and now held outside the component
BadgesOut == BadgeIds \ player_badges_vault

\* A Proof: the resource it proves and the local ids it covers.  A caller can
\* prove any non-empty set of handed-out badges, or one or two units of some
\* other resource.
Proofs ==
    {[resource |-> "badge", ids |-> S] : S \in (SUBSET BadgesOut) \ {{}}}
    \cup {[resource |-> "other", ids |-> S] : S \in {{1}, {1, 2}}}

\* Proof::amount
amount(proof) == Cardinality(proof.ids)

\* validate_proof(self.player_badge_address) succeeds
validate_proof(proof) == proof.resource = "badge"

\* local_id() of a validated single-badge proof
local_id(proof) == CHOOSE id \in proof.ids : TRUE

\* order: the order in which get_game_winner iterated players_list, if it ran
NoArgs == [wager |-> 0, number |-> 0, proof |-> [resource |-> "none", ids |-> {}],
           order |-> <<>>]
NoRet == [op |-> "instantiate_ooe_game", args |-> NoArgs, err |-> "",
          badge |-> {}, xrd |-> 0]

Return(op, args, err, badge, xrd) ==
    [op |-> op, args |-> args, err |-> err, badge |-> badge, xrd |-> xrd]

\* ---- OOE ----
\* OOE::instantiate_ooe_game(bet)
Init ==
    /\ \E bet \in 0..MaxBet : game = instantiate_game(None, bet)
    /\ player_badges_vault = BadgeIds
    /\ xrd_vault = 0
    /\ overflow_checks \in BOOLEAN
    /\ ret = NoRet
    /\ joins = 0
    /\ withdrawals = 0
    /\ picked = {}

\* join_checks without the assertion on the game state
join_checks_no_state(wager) ==
    IF is_some(game.players_list) /\ ~(len(unwrap(game.players_list)) <= 2)
    THEN "GameFull"
    ELSE IF ~(wager >= game.bet_amount) THEN "NotEnoughXRD"
    ELSE IF player_badges_vault = {} THEN "EmptyBadgeVault"
    ELSE ""

\* join_checks without the assertion on the wager
join_checks_no_wager(wager) ==
    IF game.state # "AcceptingPlayers" THEN "NotAcceptingPlayers"
    ELSE IF is_some(game.players_list) /\ ~(len(unwrap(game.players_list)) <= 2)
    THEN "GameFull"
    ELSE IF player_badges_vault = {} THEN "EmptyBadgeVault"
    ELSE ""

\* the assertions of join_ooe_game, in order: "" when all pass
join_checks(wager) ==
    IF game.state # "AcceptingPlayers" THEN "NotAcceptingPlayers"
    ELSE IF is_some(game.players_list) /\ ~(len(unwrap(game.players_list)) <= 2)
    THEN "GameFull"
    ELSE IF ~(wager >= game.bet_amount) THEN "NotEnoughXRD"
    ELSE IF player_badges_vault = {} THEN "EmptyBadgeVault"
    ELSE ""

\* wager_take putting the whole bucket in the vault
wager_take_all(wager, amt) == [taken |-> wager, rest |-> 0]

\* wager_take handing the bucket back untouched
wager_take_keep(wager, amt) == [taken |-> amt, rest |-> wager]

\* wager.take(bet_amount): [taken, rest]
wager_take(wager, amt) == [taken |-> amt, rest |-> wager - amt]

\* join_insert always starting from a new table
join_insert_fresh(players_list, nft_id, player) ==
    Some(insert(HashMap_new, nft_id, player))

\* join_insert leaving an existing table as it is
join_insert_first_only(players_list, nft_id, player) ==
    IF is_some(players_list)
    THEN players_list
    ELSE Some(insert(HashMap_new, nft_id, player))

\* players_list after the insertion of join_ooe_game
join_insert(players_list, nft_id, player) ==
    IF is_some(players_list)
    THEN Some(insert(unwrap(players_list), nft_id, player))
    ELSE Some(insert(HashMap_new, nft_id, player))

\* OOE::join_ooe_game(wager)
join_ooe_game(wager) ==
    LET args == [NoArgs EXCEPT !.wager = wager]
        err == join_checks(wager)
    IN IF err # ""
       THEN /\ ret' = Return("join_ooe_game", args, err, {}, 0)
            /\ UNCHANGED <<player_badges_vault, xrd_vault, game, overflow_checks,
                           joins, withdrawals, picked>>
       ELSE \E nft_id \in player_badges_vault :
            LET t == wager_take(wager, game.bet_amount)
                player == [Player_empty EXCEPT
                              !.odd_or_even = Some(PlayerNFT(nft_id).odd_or_even)]
                g1 == [game EXCEPT
                          !.players_list = join_insert(game.players_list, nft_id, player)]
                u == update_state(g1, <<>>)
            IN IF u.panic # ""
               THEN /\ ret' = Return("join_ooe_game", args, u.panic, {}, 0)
                    /\ UNCHANGED <<player_badges_vault, xrd_vault, game,
                                   overflow_checks, joins, withdrawals, picked>>
               ELSE /\ player_badges_vault' = player_badges_vault \ {nft_id}
                    /\ xrd_vault' = xrd_vault + t.taken
                    /\ game' = u.game
                    /\ joins' = joins + 1
                    /\ ret' = Return("join_ooe_game", args, "", {nft_id}, t.rest)
                    /\ UNCHANGED <<overflow_checks, withdrawals, picked>>

\* pick_number_checks without the assertion on the game state
pick_number_checks_no_state(proof) ==
    IF amount(proof) # 1 THEN "InvalidBadgeAmount"
    ELSE IF ~validate_proof(proof) THEN "WrongBadge"
    ELSE IF ~is_some(game.players_list) THEN "UnwrapNone"
    ELSE IF local_id(proof) \notin DOMAIN unwrap(game.players_list) THEN "UnwrapNone"
    ELSE ""

\* the assertions of pick_number, in order: "" when all pass
pick_number_checks(proof) ==
    IF amount(proof) # 1 THEN "InvalidBadgeAmount"
    ELSE IF game.state # "PickNumber" THEN "NotTimeToPick"
    ELSE IF ~validate_proof(proof) THEN "WrongBadge"
    ELSE IF ~is_some(game.players_list) THEN "UnwrapNone"
    ELSE IF local_id(proof) \notin DOMAIN unwrap(game.players_list) THEN "UnwrapNone"
    ELSE ""

\* set_number writing the number into every record of the table
set_number_all(players, pbadge_id, number) ==
    [id \in DOMAIN players |-> [players[id] EXCEPT !.number = number]]

\* players_list.get_mut(&pbadge_id).unwrap().number = number
set_number(players, pbadge_id, number) ==
    [players EXCEPT ![pbadge_id].number = number]

\* OOE::pick_number(number, proof)
pick_number(number, proof) ==
    LET args == [NoArgs EXCEPT !.number = number, !.proof = proof]
        err == pick_number_checks(proof)
    IN IF err # ""
       THEN /\ ret' = Return("pick_number", args, err, {}, 0)
            /\ UNCHANGED <<player_badges_vault, xrd_vault, game, overflow_checks,
                           joins, withdrawals, picked>>
       ELSE LET pbadge_id == local_id(proof)
                g1 == [game EXCEPT !.players_list =
                          Some(set_number(unwrap(game.players_list), pbadge_id, number))]
            IN \E order \in IterationOrders(unwrap(g1.players_list)) :
               LET u == update_state(g1, order)
                   iterated == IF both_picked(g1) THEN order ELSE <<>>
               IN /\ ret' = Return("pick_number", [args EXCEPT !.order = iterated],
                                    u.panic, {}, 0)
                  /\ game' = IF u.panic # "" THEN game ELSE u.game
                  /\ picked' = IF u.panic # "" THEN picked ELSE picked \cup {pbadge_id}
                  /\ UNCHANGED <<player_badges_vault, xrd_vault, overflow_checks,
                                 joins, withdrawals>>

\* withdraw_xrd_checks accepting the phase Ended as well as Payout
withdraw_xrd_checks_late(proof) ==
    IF amount(proof) # 1 THEN "InvalidBadgeAmount"
    ELSE IF game.state \notin {"Payout", "Ended"} THEN "NotTimeToWithdraw"
    ELSE IF ~validate_proof(proof) THEN "WrongBadge"
    ELSE IF local_id(proof) # game.winner THEN "NotWinner"
    ELSE ""

\* withdraw_xrd_checks without the comparison with the winner
withdraw_xrd_checks_anyone(proof) ==
    IF amount(proof) # 1 THEN "InvalidBadgeAmount"
    ELSE IF game.state # "Payout" THEN "NotTimeToWithdraw"
    ELSE IF ~validate_proof(proof) THEN "WrongBadge"
    ELSE ""

\* the assertions of withdraw_xrd, in order: "" when all pass
withdraw_xrd_checks(proof) ==
    IF amount(proof) # 1 THEN "InvalidBadgeAmount"
    ELSE IF game.state # "Payout" THEN "NotTimeToWithdraw"
    ELSE IF ~validate_proof(proof) THEN "WrongBadge"
    ELSE IF local_id(proof) # game.winner THEN "NotWinner"
    ELSE ""

\* winnings of one stake only
winnings_one_stake == game.bet_amount

\* let winnings = self.xrd_vault.amount()
winnings == xrd_vault

\* OOE::withdraw_xrd(proof)
withdraw_xrd(proof) ==
    LET args == [NoArgs EXCEPT !.proof = proof]
        err == withdraw_xrd_checks(proof)
    IN IF err # ""
       THEN /\ ret' = Return("withdraw_xrd", args, err, {}, 0)
            /\ UNCHANGED <<player_badges_vault, xrd_vault, game, overflow_checks,
                           joins, withdrawals, picked>>
       ELSE LET payout == winnings
                u == update_state(game, <<>>)
            IN /\ xrd_vault' = xrd_vault - payout
               /\ game' = u.game
               /\ withdrawals' = withdrawals + 1
               /\ ret' = Return("withdraw_xrd", args, "", {}, payout)
               /\ UNCHANGED <<player_badges_vault, overflow_checks, joins, picked>>

\* OOE::get_total_wagered_amount
get_total_wagered_amount ==
    /\ ret' = Return("get_total_wagered_amount", NoArgs, "", {}, xrd_vault)
    /\ UNCHANGED <<player_badges_vault, xrd_vault, game, overflow_checks,
                   joins, withdrawals, picked>>

\* OOE::get_wager_amount
get_wager_amount ==
    /\ ret' = Return("get_wager_amount", NoArgs, "", {}, game.bet_amount)
    /\ UNCHANGED <<player_badges_vault, xrd_vault, game, overflow_checks,
                   joins, withdrawals, picked>>

Join == \E wager \in WagerAmounts : join_ooe_game(wager)
Pick == \E number \in U128, proof \in Proofs : pick_number(number, proof)
Withdraw == \E proof \in Proofs : withdraw_xrd(proof)

Next ==
    \/ Join
    \/ Pick
    \/ Withdraw
    \/ get_total_wagered_amount
    \/ get_wager_amount

Spec == Init /\ [][Next]_vars

\* ---- shorthands for the properties ----
players == IF is_some(game.players_list) THEN unwrap(game.players_list) ELSE HashMap_new

\* a proof of exactly the badge of the current winner
IsWinnerProof(proof) == validate_proof(proof) /\ proof.ids = {game.winner}

\* a proof of exactly one badge of the game
IsBadgeProof(proof) == validate_proof(proof) /\ amount(proof) = 1

\* the component's state apart from the record of the last call
component == <<player_badges_vault, xrd_vault, game>>

\* C1: the XRD vault decreases, and withdraw_xrd returns, only in a
\* withdraw_xrd call made in phase Payout with the proof of the winner's
\* badge, and at most one withdraw_xrd call returns per game.
C1_EscrowLeavesOnlyToWinnerOnce ==
    [][ /\ (xrd_vault' < xrd_vault \/ withdrawals' # withdrawals) =>
              /\ ret'.op = "withdraw_xrd" /\ ret'.err = ""
              /\ game.state = "Payout"
              /\ IsWinnerProof(ret'.args.proof)
        /\ withdrawals' <= 1 ]_vars

C1_Witness ==
    /\ withdrawals = 1 /\ ret.op = "withdraw_xrd" /\ ret.err = ""
    /\ ret.xrd > 0 /\ xrd_vault = 0

\* C2 (as claimed): once both players hold a non-zero number the winner is
\* one of the two player ids, never the id 0.
C2_WinnerAlwaysDefined ==
    both_picked(game) => game.winner \in DOMAIN players

\* C3 (as claimed): the pick_number call that makes both numbers non-zero
\* leaves the state at Payout, and the game never rests in WinnerSelection.
C3_PickReachesPayout ==
    [][ /\ (both_picked(game') /\ ~both_picked(game)) => game'.state = "Payout"
        /\ game'.state # "WinnerSelection" ]_vars

\* C4: over any call, failing or not, the state never moves to an earlier
\* one in the order of the enum, and Ended is never left.
C4_PhaseOnlyForward ==
    [][ /\ StateRank(game'.state) >= StateRank(game.state)
        /\ (game.state = "Ended" => game'.state = "Ended") ]_vars

C4_Witness ==
    /\ game.state = "Ended" /\ withdrawals = 1 /\ joins = 2
    /\ ret.op = "join_ooe_game" /\ ret.err = "NotAcceptingPlayers"

\* C5: withdraw_xrd called in Payout with the proof of the winner's badge
\* returns the whole vault, which is twice the bet, empties the vault and
\* leaves the state at Ended.
C5_WinnerWithdrawsAll ==
    [][ (ret'.op = "withdraw_xrd" /\ game.state = "Payout"
            /\ IsWinnerProof(ret'.args.proof)) =>
           /\ ret'.err = ""
           /\ ret'.xrd = xrd_vault
           /\ ret'.xrd = 2 * game.bet_amount
           /\ xrd_vault' = 0
           /\ game'.state = "Ended" ]_vars

C5_Witness ==
    /\ ret.op = "withdraw_xrd" /\ ret.err = "" /\ game.state = "Ended"
    /\ game.bet_amount > 0 /\ ret.xrd = 2 * game.bet_amount

\* C6: withdraw_xrd called in Payout with a proof of one badge of the game
\* that is not the winner's fails with NotWinner and changes nothing of the
\* vaults and the game (state, winner, players_list).
C6_LoserWithdrawFails ==
    [][ (ret'.op = "withdraw_xrd" /\ game.state = "Payout"
            /\ IsBadgeProof(ret'.args.proof)
            /\ local_id(ret'.args.proof) # game.winner) =>
           /\ ret'.err = "NotWinner"
           /\ UNCHANGED component ]_vars

C6_Witness ==
    /\ ret.op = "withdraw_xrd" /\ ret.err = "NotWinner"
    /\ game.state = "Payout" /\ xrd_vault > 0
    /\ IsBadgeProof(ret.args.proof)

\* C7: the XRD vault holds bet_amount times the number of players that
\* joined and were not paid yet: 0, 1 or 2 bets before the payout, nothing
\* once the state is Ended.
C7_EscrowBalance ==
    /\ xrd_vault = game.bet_amount * (IF withdrawals > 0 THEN 0 ELSE len(players))
    /\ len(players) \in 0..2
    /\ game.state = "Ended" => xrd_vault = 0

C7_Witness ==
    /\ game.state = "Payout" /\ game.bet_amount > 0
    /\ xrd_vault = 2 * game.bet_amount /\ ret.op = "pick_number"

\* C8 (as claimed): join returns at most twice, and a join offering enough
\* XRD when two players are recorded fails with GameFull.
C8_ThirdJoinGameFull ==
    [][ /\ joins' <= 2
        /\ (ret'.op = "join_ooe_game" /\ len(players) = 2
               /\ ret'.args.wager >= game.bet_amount) =>
              ret'.err = "GameFull" ]_vars

\* C8 (amended): a join offering enough XRD returns when fewer than two
\* players are recorded, so exactly the first two do; with two players
\* recorded it fails with NotAcceptingPlayers and changes nothing.
C8_ThirdJoinNotAccepting ==
    [][ /\ joins' <= 2
        /\ (ret'.op = "join_ooe_game" /\ ret'.args.wager >= game.bet_amount) =>
              IF len(players) < 2
              THEN ret'.err = "" /\ joins' = joins + 1 /\ joins = len(players)
              ELSE ret'.err = "NotAcceptingPlayers" /\ UNCHANGED component
                   /\ joins' = joins ]_vars

C8_Witness ==
    /\ ret.op = "join_ooe_game" /\ ret.err = "NotAcceptingPlayers"
    /\ ret.args.wager >= game.bet_amount
    /\ joins = 2 /\ len(players) = 2 /\ game.state = "PickNumber"

\* C9: a join in AcceptingPlayers offering less XRD than the bet fails with
\* NotEnoughXRD and changes neither vault nor the game (players, state).
C9_LowWagerRejected ==
    [][ (ret'.op = "join_ooe_game" /\ game.state = "AcceptingPlayers"
            /\ ret'.args.wager < game.bet_amount) =>
           /\ ret'.err = "NotEnoughXRD"
           /\ ret'.badge = {}
           /\ UNCHANGED component
           /\ joins' = joins ]_vars

C9_Witness ==
    /\ ret.op = "join_ooe_game" /\ ret.err = "NotEnoughXRD"
    /\ ret.args.wager < game.bet_amount
    /\ game.state = "AcceptingPlayers" /\ len(players) = 1

\* C10: a join that returns was offered at least the bet, adds exactly the
\* bet to the XRD vault and returns the rest of the wager with one badge of
\* the badge vault; the second such join leaves two bets in the vault and
\* the state at PickNumber.
C10_JoinTakesExactBet ==
    [][ (ret'.op = "join_ooe_game" /\ ret'.err = "" /\ joins' # joins) =>
           /\ ret'.args.wager >= game.bet_amount
           /\ xrd_vault' = xrd_vault + game.bet_amount
           /\ ret'.xrd = ret'.args.wager - game.bet_amount
           /\ Cardinality(ret'.badge) = 1
           /\ ret'.badge \subseteq player_badges_vault
           /\ player_badges_vault' = player_badges_vault \ ret'.badge
           /\ (joins' = 2 =>
                  game'.state = "PickNumber" /\ xrd_vault' = 2 * game.bet_amount)
           /\ (joins' = 1 =>
                  game'.state = "AcceptingPlayers" /\ xrd_vault' = game.bet_amount) ]_vars

C10_Witness ==
    /\ ret.op = "join_ooe_game" /\ ret.err = "" /\ joins = 2
    /\ game.bet_amount > 0 /\ ret.xrd > 0
    /\ xrd_vault = 2 * game.bet_amount /\ game.state = "PickNumber"

\* the calls that assert a game state, the state each asserts and the error
\* of that assertion
GatedOps == {"join_ooe_game", "pick_number", "withdraw_xrd"}

RequiredState(op) ==
    CASE op = "join_ooe_game" -> "AcceptingPlayers"
      [] op = "pick_number" -> "PickNumber"
      [] op = "withdraw_xrd" -> "Payout"

StateError(op) ==
    CASE op = "join_ooe_game" -> "NotAcceptingPlayers"
      [] op = "pick_number" -> "NotTimeToPick"
      [] op = "withdraw_xrd" -> "NotTimeToWithdraw"

\* C11 (as claimed): a join_ooe_game, pick_number or withdraw_xrd call made
\* in another state than the one it asserts fails with the error of that
\* assertion and changes nothing of the vaults and the game.
C11_WrongPhaseGivesPhaseError ==
    [][ (ret'.op \in GatedOps /\ game.state # RequiredState(ret'.op)) =>
           /\ ret'.err = StateError(ret'.op)
           /\ UNCHANGED <<component, joins, withdrawals, picked>> ]_vars

\* C11 (amended): such a call fails and changes nothing; the error is that
\* of the state assertion, except for a pick_number or withdraw_xrd whose
\* proof is not of amount 1, which fails with InvalidBadgeAmount first.
C11_WrongPhaseFails ==
    [][ (ret'.op \in GatedOps /\ game.state # RequiredState(ret'.op)) =>
           /\ ret'.err = IF ret'.op # "join_ooe_game" /\ amount(ret'.args.proof) # 1
                         THEN "InvalidBadgeAmount"
                         ELSE StateError(ret'.op)
           /\ UNCHANGED <<component, joins, withdrawals, picked>> ]_vars

C11_Witness ==
    /\ ret.op = "withdraw_xrd" /\ ret.err = "InvalidBadgeAmount"
    /\ game.state = "PickNumber" /\ ret.args.proof.resource = "badge"
    /\ picked # {}

\* both players are recorded and each holds a non-zero number
AllGuessed ==
    len(players) = 2 /\ \A id \in DOMAIN players : players[id].number > 0

\* C12: the winner differs from the id 0 only in the states Payout and
\* Ended and only when both players hold a non-zero number; in
\* AcceptingPlayers, PickNumber and WinnerSelection the winner is the id 0.
C12_WinnerOnlyAfterBothPicked ==
    /\ game.winner # NoWinner => (game.state \in {"Payout", "Ended"} /\ AllGuessed)
    /\ game.state \in {"AcceptingPlayers", "PickNumber", "WinnerSelection"} =>
          game.winner = NoWinner

C12_Witness ==
    /\ game.winner # NoWinner /\ game.state = "Payout" /\ AllGuessed
    /\ ret.op = "pick_number" /\ ret.err = ""

\* C13: players_list never holds more than 2 entries, and a join that
\* returns adds exactly one entry, under the id of the badge it hands out,
\* which was not a key before; the entries already there are kept.
C13_JoinAddsOneNewEntry ==
    [][ /\ len(players') <= 2
        /\ joins' # joins =>
              /\ Cardinality(ret'.badge) = 1
              /\ ret'.badge \cap DOMAIN players = {}
              /\ DOMAIN players' = DOMAIN players \cup ret'.badge
              /\ \A id \in DOMAIN players : players'[id] = players[id]
        /\ joins' = joins => DOMAIN players' = DOMAIN players ]_vars

C13_Witness ==
    /\ ret.op = "join_ooe_game" /\ ret.err = "" /\ joins = 2
    /\ DOMAIN players = BadgeIds /\ player_badges_vault = {}

\* C14 (as claimed): for the same players and the same numbers the outcome
\* of the pick_number call (winner and state) is the same whatever the
\* order in which players_list is iterated.
C14_WinnerIndependentOfOrder ==
    \A number \in U128, proof \in Proofs :
        pick_number_checks(proof) = "" =>
            LET table == set_number(unwrap(game.players_list), local_id(proof), number)
                g1 == [game EXCEPT !.players_list = Some(table)]
            IN \A o1, o2 \in IterationOrders(table) :
                  update_state(g1, o1) = update_state(g1, o2)

\* C15 (as claimed): once the pick_number call of a badge has returned, no
\* later call changes the number of that player.
C15_NumberWrittenOnce ==
    [][ \A id \in picked : players'[id].number = players[id].number ]_vars

\* C15 (amended): the number of a player changes only in a pick_number call
\* made in PickNumber with the proof of that player's badge; such a call may
\* overwrite an earlier pick, and after PickNumber no number changes.
C15_NumberWrittenByOwnerInPickNumber ==
    [][ \A id \in DOMAIN players :
           (id \notin DOMAIN players' \/ players'[id].number # players[id].number) =>
              /\ ret'.op = "pick_number" /\ ret'.err = ""
              /\ game.state = "PickNumber"
              /\ IsBadgeProof(ret'.args.proof) /\ ret'.args.proof.ids = {id}
              /\ id \in DOMAIN players'
              /\ players'[id].number = ret'.args.number ]_vars

C15_Witness ==
    /\ ret.op = "pick_number" /\ ret.err = "" /\ game.state = "PickNumber"
    /\ ret.args.number > 0 /\ picked = ret.args.proof.ids
    /\ \A id \in picked : players[id].number = ret.args.number

\* C16 (as claimed): the bet amount of every game is positive and no call
\* changes it.
C16_BetPositiveAndFixed ==
    /\ [](game.bet_amount > 0)
    /\ [][game'.bet_amount = game.bet_amount]_vars

\* C17: when a pick_number call runs get_game_winner over the players in
\* the order (p1, p2) with numbers (g1, g2), the winner is p2 if g1 + g2 is
\* even, else p1 if g1 is even, else still the id 0.
C17_WinnerIsTwoStepFold ==
    [][ (ret'.op = "pick_number" /\ ret'.err = "" /\ game.state = "PickNumber"
            /\ Len(ret'.args.order) = 2) =>
           LET p1 == ret'.args.order[1]
               p2 == ret'.args.order[2]
               g1 == players'[p1].number
               g2 == players'[p2].number
           IN game'.winner = IF (g1 + g2) % 2 = 0 THEN p2
                             ELSE IF g1 % 2 = 0 THEN p1
                             ELSE NoWinner ]_vars

C17_Witness ==
    /\ ret.op = "pick_number" /\ ret.err = "" /\ Len(ret.args.order) = 2
    /\ game.winner = ret.args.order[1] /\ game.state = "Payout"
    /\ players[ret.args.order[2]].number % 2 = 1

\* the exit condition of the current state is not met (Payout apart)
ExitNotMet ==
    CASE game.state = "AcceptingPlayers" -> len(players) < 2
      [] game.state = "PickNumber" -> ~AllGuessed
      [] game.state = "WinnerSelection" -> game.winner = NoWinner
      [] game.state = "Payout" -> FALSE
      [] OTHER -> TRUE

C19_EveryBadgeOutHasRecord ==
    /\ [](BadgesOut \subseteq DOMAIN players)
    /\ [][ (ret'.op = "pick_number" /\ game.state = "PickNumber"
               /\ IsBadgeProof(ret'.args.proof)) =>
              /\ local_id(ret'.args.proof) \in DOMAIN players
              /\ ret'.err # "UnwrapNone" ]_vars

C19_Witness ==
    /\ ret.op = "pick_number" /\ ret.err = "" /\ BadgesOut = BadgeIds
    /\ IsBadgeProof(ret.args.proof) /\ game.state = "PickNumber"

\* C20 (as claimed): a winner that is set holds the badge whose odd_or_even
\* is the parity of the sum of the two numbers: the Even badge (id 1) for an
\* even sum, the Odd badge (id 2) for an odd sum.
C20_WinnerMatchesParity ==
    (game.winner # NoWinner /\ DOMAIN players = BadgeIds) =>
        LET total == players[1].number + players[2].number
        IN PlayerNFT(game.winner).odd_or_even =
              IF total % 2 = 0 THEN "Even" ELSE "Odd"
====
